------------------------------ MODULE Spec2Model ------------------------------
(***************************************************************************)
(* Model of the OpenAPI -> mock-server converter (mock-server-setting.go   *)
(* and its entry point).                                                   *)
(*                                                                         *)
(* Text is a sequence of tokens.  A token is one character ("a", " ",      *)
(* "\n", "?") or one of the literal separators the code concatenates       *)
(* ("?key=", "&contentType=", "&name=", "/data/", ".json", ...).  No token *)
(* is a prefix of another, so two texts are equal exactly when their token *)
(* sequences are.                                                          *)
(*                                                                         *)
(* A Go pointer (or nil-able map) is a sequence of length 0 (nil) or 1.    *)
(***************************************************************************)
EXTENDS Integers, Sequences, FiniteSets, TLC

VARIABLES
    name,        \* SpecClean: the text handed to cleanFolderName
    cleaned,     \* SpecClean: results of applying cleanFolderName 1x, 2x
    schema,      \* SpecSchema: the reusable schema handed to the synthesizer
    example,     \* SpecSchema: what extractSchemaExample returned (0 or 1 value)
    doc,         \* the parsed OpenAPI document (the content of the source file)
    faults,      \* the outcomes (TRUE: success) a file-system call can have
    run,         \* which invocation of the program this is (index into Roots)
    pid,         \* os.Getpid() of this invocation
    pc,          \* position of exportOpenAPIToMockServer
    m,           \* mockServerInfo, the MockServerSetting
    extracted,   \* getRequests' local lists: what extractResponse returned, per
                 \* request, before the sort (dead once CreateFolder starts)
    built,       \* history: m.Requests as ConvertOpenAPIToMockServer returned it
    pos,         \* position of SaveSetting's loops over requests and responses
    fs,          \* the file system: directories, and files with their content
    io           \* history: the failable steps of this invocation, in order

cleanVars == <<name, cleaned>>
schemaVars == <<schema, example>>
runVars == <<doc, faults, run, pid, pc, m, extracted, built, pos, fs, io>>
vars == <<name, cleaned, schema, example, doc, faults, run, pid, pc, m, extracted, built,
          pos, fs, io>>

Nil == <<>>
Ptr(v) == <<v>>
Deref(p) == p[1]

(***************************************************************************)
(* Bounds                                                                  *)
(***************************************************************************)
MaxLen == 3      \* longest text handed to cleanFolderName in SpecClean
MaxProps == 2    \* most properties a schema of SpecSchema declares
MaxEntries == 2  \* most status-code entries a document declares, over all operations

(***************************************************************************)
(* strings package                                                         *)
(***************************************************************************)
\* unicode.IsSpace restricted to the characters of the model's alphabets
WhiteSpace == {" ", "\t", "\n", "\r"}

RECURSIVE ReplaceAll(_, _, _)
ReplaceAll(s, old, new) ==
    IF s = <<>> THEN <<>>
    ELSE (IF Head(s) = old THEN new ELSE <<Head(s)>>) \o ReplaceAll(Tail(s), old, new)

RECURSIVE TrimLeft(_, _)
TrimLeft(s, cutset) ==
    IF s # <<>> /\ Head(s) \in cutset THEN TrimLeft(Tail(s), cutset) ELSE s

RECURSIVE TrimRight(_, _)
TrimRight(s, cutset) ==
    IF s # <<>> /\ s[Len(s)] \in cutset
    THEN TrimRight(SubSeq(s, 1, Len(s) - 1), cutset)
    ELSE s

TrimSpace(s) == TrimRight(TrimLeft(s, WhiteSpace), WhiteSpace)

(***************************************************************************)
(* cleanFolderName                                                         *)
(***************************************************************************)
notAllowedChars == <<"<", ">", ":", "\"", "/", "\\", "|", "?", "*">>

RECURSIVE RemoveChars(_, _)
RemoveChars(s, chars) ==
    IF chars = <<>> THEN s
    ELSE RemoveChars(ReplaceAll(s, Head(chars), <<>>), Tail(chars))

\* mutant: the loop over notAllowedChars stops one entry short ("*" survives)
cleanFolderName_SkipLast(s) ==
    RemoveChars(ReplaceAll(TrimSpace(ReplaceAll(s, "\n", <<>>)), " ", <<"_">>),
                SubSeq(notAllowedChars, 1, Len(notAllowedChars) - 1))

cleanFolderName(s) ==
    RemoveChars(ReplaceAll(TrimSpace(ReplaceAll(s, "\n", <<>>)), " ", <<"_">>),
                notAllowedChars)

(***************************************************************************)
(* SpecClean: cleanFolderName applied once and then again to its own       *)
(* result, for every text over CleanAlphabet of at most MaxLen characters. *)
(***************************************************************************)
CleanAlphabet ==
    {notAllowedChars[k] : k \in DOMAIN notAllowedChars} \cup {"a", "_", " ", "\t", "\n"}

TextUpTo(alphabet, n) == UNION {[1..k -> alphabet] : k \in 0..n}

SchemaIdle == /\ schema = <<>>
              /\ example = <<>>

RunIdle == /\ doc = <<>>
           /\ faults = {}
           /\ run = 0
           /\ pid = 0
           /\ pc = "idle"
           /\ m = <<>>
           /\ extracted = <<>>
           /\ built = <<>>
           /\ pos = 0
           /\ fs = <<>>
           /\ io = <<>>

InitClean ==
    /\ name \in TextUpTo(CleanAlphabet, MaxLen)
    /\ cleaned = <<>>
    /\ SchemaIdle
    /\ RunIdle

CleanOnce ==
    /\ cleaned = <<>>
    /\ cleaned' = <<cleanFolderName(name)>>
    /\ UNCHANGED <<name, schemaVars, runVars>>

CleanAgain ==
    /\ Len(cleaned) = 1
    /\ cleaned' = Append(cleaned, cleanFolderName(cleaned[1]))
    /\ UNCHANGED <<name, schemaVars, runVars>>

NextClean == CleanOnce \/ CleanAgain

SpecClean == InitClean /\ [][NextClean]_vars

Contains(s, c) == \E k \in DOMAIN s : s[k] = c

\* C8 (as claimed): cleanFolderName is idempotent,
\* cleanFolderName(cleanFolderName(x)) = cleanFolderName(x) for every text x.
C8_Idempotent == Len(cleaned) = 2 => cleaned[2] = cleaned[1]

\* C9: the output of cleanFolderName contains none of < > : " / \ | ? *
\* and no newline character.
C9_NoForbiddenChar ==
    \A k \in DOMAIN cleaned :
        /\ ~Contains(cleaned[k], "\n")
        /\ \A c \in DOMAIN notAllowedChars : ~Contains(cleaned[k], notAllowedChars[c])

\* C9 witness: an input holding a forbidden character and a newline was cleaned
C9_Witness ==
    /\ Contains(name, "?") /\ Contains(name, "\n") /\ Contains(name, "a")
    /\ Len(cleaned) = 1
    /\ cleaned[1] = <<"a">>

(***************************************************************************)
(* Iteration over a Go map: the order is unspecified, so a range loop      *)
(* visits the keys in an arbitrary permutation, chosen anew for each loop. *)
(***************************************************************************)
RECURSIVE Perms(_)
Perms(S) ==
    IF S = {} THEN {<<>>} ELSE UNION {{<<x>> \o p : p \in Perms(S \ {x})} : x \in S}

Range(s) == {s[k] : k \in DOMAIN s}

(***************************************************************************)
(* OrderedMap (NewOrderedMap, Set, MarshalJSON): an insertion-ordered map, *)
(* marshalled in insertion order.                                          *)
(***************************************************************************)
NewOrderedMap == <<>>

OrderedMapSet(om, k, v) ==
    IF \E i \in DOMAIN om : om[i].key = k
    THEN [i \in DOMAIN om |-> IF om[i].key = k THEN [key |-> k, value |-> v] ELSE om[i]]
    ELSE Append(om, [key |-> k, value |-> v])

\* a JSON value: interface{} nil marshals as null, any other value as its literal
MarshalValue(v) == IF v = Nil THEN <<"null">> ELSE Deref(v)

RECURSIVE MarshalMembers(_)
MarshalMembers(om) ==
    IF om = <<>> THEN <<>>
    ELSE <<"\n", " ", " ", "\"", Head(om).key, "\"", ":", " ">> \o MarshalValue(Head(om).value)
         \o (IF Tail(om) = <<>> THEN <<"\n">> ELSE <<",">>)
         \o MarshalMembers(Tail(om))

\* json.MarshalIndent(om, "", "  ")
MarshalIndentOrderedMap(om) == <<"{">> \o MarshalMembers(om) \o <<"}">>

(***************************************************************************)
(* extractSchemaExample.  A schema is [type, properties]; properties is    *)
(* nil or a Go map from property name to [type, example], here the         *)
(* function built from the declared list.  `order` is the order in which   *)
(* the range loop over schema.Properties visits the names.                 *)
(***************************************************************************)
PropertyMap(declared) ==
    [n \in {declared[k].name : k \in DOMAIN declared} |->
        LET k == CHOOSE k \in DOMAIN declared : declared[k].name = n
        IN  [type |-> declared[k].type, example |-> declared[k].example]]

RECURSIVE CollectProperties(_, _, _)
CollectProperties(om, properties, order) ==
    IF order = <<>> THEN om
    ELSE LET childSchema == properties[Head(order)]
         IN  CollectProperties(
                 IF childSchema.type \in {"string", "integer"}
                 THEN OrderedMapSet(om, Head(order), childSchema.example)
                 ELSE om,
                 properties, Tail(order))

extractSchemaExample(s, order) ==
    MarshalIndentOrderedMap(
        IF s.type = "object" /\ s.properties # Nil
        THEN CollectProperties(NewOrderedMap, PropertyMap(Deref(s.properties)), order)
        ELSE NewOrderedMap)

(***************************************************************************)
(* SpecSchema: extractSchemaExample on every schema declaring at most      *)
(* MaxProps properties.                                                    *)
(***************************************************************************)
PropNames == {"id", "name", "meta"}
PropTypes == {"string", "integer", "object"}
ExampleValues == {Nil, Ptr(<<"1">>), Ptr(<<"\"", "a", "\"">>)}

DeclaredLists ==
    {d \in UNION {[1..k -> [name : PropNames, type : PropTypes, example : ExampleValues]]
                  : k \in 0..MaxProps} :
        \A i, j \in DOMAIN d : d[i].name = d[j].name => i = j}

Schemas ==
    [type : {"object", "string"}, properties : {Nil} \cup {Ptr(d) : d \in DeclaredLists}]

CleanIdle == /\ name = <<>>
             /\ cleaned = <<>>

InitSchema ==
    /\ schema \in Schemas
    /\ example = <<>>
    /\ CleanIdle
    /\ RunIdle

PropertyNamesOf(s) ==
    IF s.properties = Nil THEN {}
    ELSE {Deref(s.properties)[k].name : k \in DOMAIN Deref(s.properties)}

Synthesize ==
    /\ example = <<>>
    /\ \E order \in Perms(PropertyNamesOf(schema)) :
           example' = <<extractSchemaExample(schema, order)>>
    /\ UNCHANGED <<schema, cleanVars, runVars>>

NextSchema == Synthesize

SpecSchema == InitSchema /\ [][NextSchema]_vars

\* the declared properties of type string or integer, in declaration order
RECURSIVE EligibleInDeclaredOrder(_)
EligibleInDeclaredOrder(d) ==
    IF d = <<>> THEN <<>>
    ELSE (IF Head(d).type \in {"string", "integer"}
          THEN <<[key |-> Head(d).name, value |-> Head(d).example]>>
          ELSE <<>>) \o EligibleInDeclaredOrder(Tail(d))

\* C7 (as claimed): for an object-typed schema the synthesized example is the
\* JSON object of exactly the string/integer properties, each with its example
\* value or null, with the keys in the order the properties were declared.
C7_DeclarationOrder ==
    (example # <<>> /\ schema.type = "object" /\ schema.properties # Nil)
        => example[1] = MarshalIndentOrderedMap(
                            EligibleInDeclaredOrder(Deref(schema.properties)))


(***************************************************************************)
(* strconv.Atoi / strconv.Itoa over decimal digit characters               *)
(***************************************************************************)
Digits == <<"0", "1", "2", "3", "4", "5", "6", "7", "8", "9">>

DigitValue(c) == (CHOOSE k \in DOMAIN Digits : Digits[k] = c) - 1

RECURSIVE ParseDigits(_, _)
ParseDigits(s, acc) ==
    IF s = <<>> THEN acc ELSE ParseDigits(Tail(s), acc * 10 + DigitValue(Head(s)))

\* nil on a syntax error, otherwise a pointer to the value
Atoi(s) ==
    LET signed == s # <<>> /\ Head(s) \in {"+", "-"}
        digits == IF signed THEN Tail(s) ELSE s
    IN  IF digits = <<>> \/ \E k \in DOMAIN digits : digits[k] \notin Range(Digits)
        THEN Nil
        ELSE Ptr(IF signed /\ Head(s) = "-" THEN 0 - ParseDigits(digits, 0)
                 ELSE ParseDigits(digits, 0))

RECURSIVE ItoaNat(_)
ItoaNat(n) ==
    IF n < 10 THEN <<Digits[n + 1]>> ELSE ItoaNat(n \div 10) \o <<Digits[(n % 10) + 1]>>

Itoa(n) == IF n < 0 THEN <<"-">> \o ItoaNat(0 - n) ELSE ItoaNat(n)

(***************************************************************************)
(* for k, v := range m { ... append ... }: `body` maps each key to the set *)
(* of lists one pass of the loop body can append; the result is the set of *)
(* lists the whole loop can build.                                         *)
(***************************************************************************)
RECURSIVE RangeOver(_, _)
RangeOver(keys, body) ==
    IF keys = {} THEN {<<>>}
    ELSE UNION {{first \o rest : first \in body[k], rest \in RangeOver(keys \ {k}, body)}
                : k \in keys}

(***************************************************************************)
(* getBodyString.  An example value (interface{}) is nil, a string, a JSON *)
(* object (a map from key to literal) or a value encoding/json rejects.    *)
(***************************************************************************)
KeyOrder == <<"id", "meta", "name">>     \* the JSON keys of the model, sorted

SortedMembers(obj) ==
    LET keys == SelectSeq(KeyOrder, LAMBDA k : k \in DOMAIN obj)
    IN  [i \in DOMAIN keys |-> [key |-> keys[i], value |-> Ptr(obj[keys[i]])]]

getBodyString(exampleRef) ==
    IF exampleRef = Nil \/ Deref(exampleRef).Value = Nil THEN <<>>
    ELSE LET examapleObject == Deref(Deref(exampleRef).Value)
         IN  CASE examapleObject.kind = "string" -> examapleObject.text
               [] examapleObject.kind = "object" ->
                      MarshalIndentOrderedMap(SortedMembers(examapleObject.members))
               [] OTHER -> <<>>

(***************************************************************************)
(* extractResponse: the set of lists the walk over operation.Responses can *)
(* return, or a fatal exit on a status-code key that is not a number.      *)
(* A response record carries, besides the fields of Response, the history  *)
(* field src: the (status code, content type, example name) the walk was   *)
(* at when it appended the response.  src is not serialized.               *)
(***************************************************************************)
Triple(code, contentType, exampleName) ==
    [code |-> code, contentType |-> contentType, exampleName |-> exampleName]

KeyQuery(key) == <<"?", "key=">> \o key
ContentTypeQuery(key, contentType) == KeyQuery(key) \o <<"&contentType=">> \o contentType
ExampleQuery(key, contentType, exampleName) ==
    ContentTypeQuery(key, contentType) \o <<"&name=">> \o exampleName

Description(responseItem) ==
    IF responseItem.Description # Nil THEN Deref(responseItem.Description) ELSE <<>>

ExampleResponses(description, key, code, contentType, content) ==
    LET headers == Ptr(<<[Name |-> <<"Content-Type">>, Value |-> contentType]>>)
    IN  RangeOver(DOMAIN content.Examples,
            [exampleName \in DOMAIN content.Examples |->
                LET bodyStr == getBodyString(content.Examples[exampleName])
                IN  {<<[Name     |-> cleanFolderName(description),
                        Code     |-> code,
                        Query    |-> ExampleQuery(key, contentType, exampleName),
                        Headers  |-> headers,
                        FilePath |-> Nil,
                        Body     |-> IF Len(bodyStr) > 0 THEN Ptr(bodyStr) ELSE Nil,
                        src      |-> Triple(code, Ptr(contentType), Ptr(exampleName))]>>}])

SchemaResponse(description, key, code, contentType, content, schemaExamples) ==
    LET headers == Ptr(<<[Name |-> <<"Content-Type">>, Value |-> contentType]>>)
        hasRef  == content.Schema # Nil /\ Deref(content.Schema).Ref # <<>>
        ok      == hasRef /\ Deref(content.Schema).Ref \in DOMAIN schemaExamples
        bodyStr == IF ok THEN schemaExamples[Deref(content.Schema).Ref] ELSE <<>>
    IN  [Name     |-> cleanFolderName(description),
         Code     |-> code,
         Query    |-> ContentTypeQuery(key, contentType),
         Headers  |-> headers,
         FilePath |-> Nil,
         Body     |-> IF ok /\ bodyStr # <<>> THEN Ptr(bodyStr) ELSE Nil,
         src      |-> Triple(code, Ptr(contentType), Nil)]

\* mutant: a schema reference found in the table wins over the inline examples
ContentResponses_SchemaFirst(description, key, code, contentType, media, schemaExamples) ==
    IF media = Nil THEN {<<>>}
    ELSE IF /\ Deref(media).Schema # Nil
            /\ Deref(Deref(media).Schema).Ref \in DOMAIN schemaExamples
    THEN {<<SchemaResponse(description, key, code, contentType, Deref(media),
                           schemaExamples)>>}
    ELSE IF DOMAIN Deref(media).Examples # {}
    THEN ExampleResponses(description, key, code, contentType, Deref(media))
    ELSE {<<SchemaResponse(description, key, code, contentType, Deref(media),
                           schemaExamples)>>}

ContentResponses(description, key, code, contentType, media, schemaExamples) ==
    IF media = Nil THEN {<<>>}
    ELSE IF DOMAIN Deref(media).Examples # {}
    THEN ExampleResponses(description, key, code, contentType, Deref(media))
    ELSE {<<SchemaResponse(description, key, code, contentType, Deref(media),
                           schemaExamples)>>}

\* mutant: an entry without a content mapping yields no response
EntryResponses_SkipsBare(key, responseItem, schemaExamples) ==
    LET description == Description(responseItem)
        code == Deref(Atoi(key))
    IN  IF responseItem.Content # Nil
        THEN RangeOver(DOMAIN Deref(responseItem.Content),
                 [contentType \in DOMAIN Deref(responseItem.Content) |->
                     ContentResponses(description, key, code, contentType,
                                      Deref(responseItem.Content)[contentType],
                                      schemaExamples)])
        ELSE {<<>>}

EntryResponses(key, responseItem, schemaExamples) ==
    LET description == Description(responseItem)
        code == Deref(Atoi(key))
    IN  IF responseItem.Content # Nil
        THEN RangeOver(DOMAIN Deref(responseItem.Content),
                 [contentType \in DOMAIN Deref(responseItem.Content) |->
                     ContentResponses(description, key, code, contentType,
                                      Deref(responseItem.Content)[contentType],
                                      schemaExamples)])
        ELSE {<<[Name     |-> cleanFolderName(description),
                 Code     |-> code,
                 Query    |-> <<"?", "key=">> \o Itoa(code),
                 Headers  |-> Nil,
                 FilePath |-> Nil,
                 Body     |-> Nil,
                 src      |-> Triple(code, Nil, Nil)]>>}

\* log.Fatalf at the first key strconv.Atoi rejects: every key is visited
FatalKey(operation) == \E key \in DOMAIN operation.Responses : Atoi(key) = Nil

extractResponse(operation, schemaExamples) ==
    RangeOver(DOMAIN operation.Responses,
        [key \in DOMAIN operation.Responses |->
            EntryResponses(key, operation.Responses[key], schemaExamples)])

(***************************************************************************)
(* sort.Slice(responses, less by Code): sorts, and is not a stable sort    *)
(* ("The sort is not guaranteed to be stable"): any ordering of the input  *)
(* with non-decreasing codes can be the result.                            *)
(***************************************************************************)
SortedByCode(responses) ==
    \A i, j \in DOMAIN responses : i < j => responses[i].Code <= responses[j].Code

\* mutant: the sort.Slice call is missing
sortSlice_Missing(responses) == {responses}

sortSlice(responses) ==
    {sorted \in {[i \in DOMAIN responses |-> responses[p[i]]] : p \in Perms(DOMAIN responses)} :
        SortedByCode(sorted)}


(***************************************************************************)
(* getRequests: the schema-example table, then one Request per operation,  *)
(* in the order the (Go map) ranges over paths and methods visit them.     *)
(* Each request is paired with the list extractResponse returned for it,   *)
(* before the sort: <<request, extracted>>.                                *)
(***************************************************************************)
SchemaFullName(schemaName) == <<"#", "/", "components", "/", "schemas", "/">> \o schemaName

SchemaExampleChoices(s) ==
    {extractSchemaExample(s, order) : order \in Perms(PropertyNamesOf(s))}

\* the tables the loop over Components.Schemas can build
SchemaExampleTables(openAPISpec) ==
    IF openAPISpec.Schemas = Nil THEN {<<>>}
    ELSE LET schemas == Deref(openAPISpec.Schemas)
             refs == {SchemaFullName(n) : n \in DOMAIN schemas}
             of(ref) == CHOOSE n \in DOMAIN schemas : SchemaFullName(n) = ref
         IN  {t \in [refs -> UNION {SchemaExampleChoices(schemas[n]) : n \in DOMAIN schemas}] :
                 \A ref \in refs : t[ref] \in SchemaExampleChoices(schemas[of(ref)])}

OperationRequests(path, method, operation, schemaExamples) ==
    UNION {{<<<<[Name      |-> operation.OperationID,
                 Method    |-> method,
                 Path      |-> path,
                 Responses |-> responses], responses0>>>> : responses \in sortSlice(responses0)}
           : responses0 \in extractResponse(operation, schemaExamples)}

getRequests(openAPISpec) ==
    UNION {RangeOver(DOMAIN openAPISpec.Paths,
               [path \in DOMAIN openAPISpec.Paths |->
                   RangeOver(DOMAIN openAPISpec.Paths[path],
                       [method \in DOMAIN openAPISpec.Paths[path] |->
                           OperationRequests(path, method,
                                             openAPISpec.Paths[path][method],
                                             schemaExamples)])])
           : schemaExamples \in SchemaExampleTables(openAPISpec)}

\* some operation of the document makes extractResponse exit the process
FatalDocument(openAPISpec) ==
    \E path \in DOMAIN openAPISpec.Paths :
        \E method \in DOMAIN openAPISpec.Paths[path] :
            FatalKey(openAPISpec.Paths[path][method])

randomPort(p) == 10000 + (p % 50000)

getHeaders(openAPISpec) == <<>>

\* the settings the call can return, each paired with getRequests' pre-sort lists
ConvertOpenAPIToMockServer(openAPISpec, p) ==
    {<<[Name           |-> openAPISpec.Info.Title,
        Description    |-> openAPISpec.Info.Description,
        Folder         |-> <<>>,
        Host           |-> <<"0", ".", "0", ".", "0", ".", "0">>,
        Port           |-> randomPort(p),
        SwaggerEnabled |-> TRUE,
        Headers        |-> Ptr(getHeaders(openAPISpec)),
        Requests       |-> [i \in DOMAIN requests |-> requests[i][1]]],
       [i \in DOMAIN requests |-> requests[i][2]]>> : requests \in getRequests(openAPISpec)}

\* the zero value of MockServerSetting
ZeroSetting ==
    [Name |-> <<>>, Description |-> <<>>, Folder |-> <<>>, Host |-> <<>>, Port |-> 0,
     SwaggerEnabled |-> FALSE, Headers |-> Nil, Requests |-> <<>>]

(***************************************************************************)
(* yaml encoding of the setting: the fields tagged yaml:"-" (Folder, Body, *)
(* Schemas) are dropped, an omitempty field is absent (nil) when empty.    *)
(***************************************************************************)
OmitEmpty(text) == IF text = <<>> THEN Nil ELSE Ptr(text)

EncodeResponse(response) ==
    [name     |-> response.Name,
     code     |-> response.Code,
     query    |-> OmitEmpty(response.Query),
     headers  |-> response.Headers,
     filePath |-> response.FilePath]

EncodeRequest(request) ==
    [name      |-> request.Name,
     method    |-> request.Method,
     path      |-> request.Path,
     responses |-> [j \in DOMAIN request.Responses |-> EncodeResponse(request.Responses[j])]]

Encode(mm) ==
    [name           |-> mm.Name,
     description    |-> mm.Description,
     host           |-> mm.Host,
     port           |-> mm.Port,
     swaggerEnabled |-> mm.SwaggerEnabled,
     headers        |-> mm.Headers,
     requests       |-> [i \in DOMAIN mm.Requests |-> EncodeRequest(mm.Requests[i])]]

(***************************************************************************)
(* The run: exportOpenAPIToMockServer(openApiFile, targetFolder).          *)
(***************************************************************************)
OpenApiFile == <<"src", ".", "yaml">>
Roots == <<(<<"t">>), (<<"u", "/">>)>>     \* targetFolder of each invocation
Pids == {4242, 54243}

targetFolder == Roots[run]

Step(op, path, at, ok) == [op |-> op, path |-> path, at |-> at, ok |-> ok]

WriteTo(files, path, content) ==
    [p \in DOMAIN files \cup {path} |-> IF p = path THEN content ELSE files[p]]

RECURSIVE LastIndexOf(_, _, _)
LastIndexOf(path, c, i) ==
    IF i < 1 THEN 0 ELSE IF path[i] = c THEN i ELSE LastIndexOf(path, c, i - 1)

\* filepath.Dir for a path without a trailing separator
Dir(path) == SubSeq(path, 1, LastIndexOf(path, "/", Len(path)) - 1)

\* filepath.Ext: from the last dot of the last path element
RECURSIVE ExtFrom(_, _)
ExtFrom(path, i) ==
    IF i < 1 \/ path[i] = "/" THEN <<>>
    ELSE IF path[i] = "." THEN SubSeq(path, i, Len(path))
    ELSE ExtFrom(path, i - 1)

Ext(path) == ExtFrom(path, Len(path))

ParseOpenApiFile ==
    /\ pc = "parse"
    /\ \E ok \in faults :
           /\ io' = Append(io, Step("ReadFile", OpenApiFile, 0, ok))
           /\ pc' = IF ok THEN "convert" ELSE "fatal"
    /\ UNCHANGED <<doc, faults, run, pid, m, extracted, built, pos, fs, cleanVars, schemaVars>>

Convert ==
    /\ pc = "convert"
    /\ IF FatalDocument(doc)
       THEN /\ io' = Append(io, Step("Atoi", <<>>, 0, FALSE))
            /\ pc' = "fatal"
            /\ UNCHANGED <<m, extracted, built>>
       ELSE /\ \E mockServerInfo \in ConvertOpenAPIToMockServer(doc, pid) :
                   /\ m' = mockServerInfo[1]
                   /\ extracted' = mockServerInfo[2]
                   /\ built' = mockServerInfo[1].Requests
            /\ pc' = "createFolder"
            /\ io' = io
    /\ UNCHANGED <<doc, faults, run, pid, pos, fs, cleanVars, schemaVars>>

DataFolder(target, mm) ==
    TrimRight(TrimRight(target, {"/"}), {"\\"}) \o <<"/", "data", "/">> \o cleanFolderName(mm.Name)

CreateFolder ==
    /\ pc = "createFolder"
    /\ LET folder == DataFolder(targetFolder, m)
       IN  /\ m' = [m EXCEPT !.Folder = folder]
           /\ IF folder \in fs.dirs
              THEN /\ pc' = "saveSetting"
                   /\ UNCHANGED <<fs, io>>
              ELSE \E ok \in (IF Dir(folder) \in fs.dirs THEN faults ELSE {FALSE}) :
                       /\ io' = Append(io, Step("Mkdir", folder, 0, ok))
                       /\ fs' = IF ok THEN [fs EXCEPT !.dirs = @ \cup {folder}] ELSE fs
                       /\ pc' = IF ok THEN "saveSetting" ELSE "fatal"
    /\ pos' = 1
    /\ extracted' = <<>>
    /\ UNCHANGED <<doc, faults, run, pid, built, cleanVars, schemaVars>>

(***************************************************************************)
(* SaveSetting: one step per pass of the inner loop body, then the setting *)
(* file.  Positions lists the (i, j) the nested loops visit, in order.     *)
(***************************************************************************)
RECURSIVE PositionsFrom(_, _)
PositionsFrom(requests, i) ==
    IF i > Len(requests) THEN <<>>
    ELSE [j \in DOMAIN requests[i].Responses |-> <<i, j>>] \o PositionsFrom(requests, i + 1)

Positions(requests) == PositionsFrom(requests, 1)

folderRelativePath(request, response) ==
    request.Method \o <<"/">> \o request.Name \o <<"/">> \o Itoa(response.Code)

folderFullPath(mm, request, response) ==
    mm.Folder \o <<"/">> \o folderRelativePath(request, response)

\* mutant: the path stored in the setting is the path under the target folder
fileRelativePath_Full(mm, request, response) ==
    folderFullPath(mm, request, response) \o <<"/">> \o cleanFolderName(response.Name)
        \o <<".", "json">>

fileRelativePath(mm, request, response) ==
    <<".", "/", "data", "/">> \o cleanFolderName(mm.Name) \o <<"/">>
        \o folderRelativePath(request, response) \o <<"/">>
        \o cleanFolderName(response.Name) \o <<".", "json">>

fileFullPath(mm, request, response) ==
    folderFullPath(mm, request, response) \o <<"/">> \o cleanFolderName(response.Name)
        \o <<".", "json">>

\* os.MkdirAll creates the directory and its missing parents
MkdirAll(dirs, mm, request, response) ==
    dirs \cup {folderFullPath(mm, request, response),
               Dir(folderFullPath(mm, request, response)),
               Dir(Dir(folderFullPath(mm, request, response)))}

\* mutant: the body file is planned whether or not the response has a body
HasBody_Always(response) == TRUE

HasBody(response) == response.Body # Nil

BodyBytes(response) == IF response.Body = Nil THEN <<>> ELSE Deref(response.Body)

SaveResponse ==
    /\ pc = "saveSetting"
    /\ pos <= Len(Positions(m.Requests))
    /\ LET i == Positions(m.Requests)[pos][1]
           j == Positions(m.Requests)[pos][2]
           request  == m.Requests[i]
           response == request.Responses[j]
           folder   == folderFullPath(m, request, response)
           file     == fileFullPath(m, request, response)
           saved    == [m EXCEPT !.Requests[i].Responses[j].FilePath =
                                      Ptr(fileRelativePath(m, request, response))]
       IN  IF ~HasBody(response)
           THEN /\ pos' = pos + 1
                /\ UNCHANGED <<m, fs, io, pc>>
           ELSE /\ m' = saved
                /\ \E made \in (IF folder \in fs.dirs THEN {TRUE} ELSE faults) :
                   \E written \in faults :
                       LET mkdir == IF folder \in fs.dirs THEN <<>>
                                    ELSE <<Step("MkdirAll", folder, pos, made)>>
                       IN  IF ~made
                           THEN /\ io' = io \o mkdir
                                /\ pc' = "fatal"
                                /\ UNCHANGED <<fs, pos>>
                           ELSE /\ io' = io \o mkdir \o <<Step("WriteFile", file, pos, written)>>
                                /\ fs' = [dirs  |-> MkdirAll(fs.dirs, m, request, response),
                                          files |-> IF written
                                                    THEN WriteTo(fs.files, file, BodyBytes(response))
                                                    ELSE fs.files]
                                /\ pc' = IF written THEN pc ELSE "fatal"
                                /\ pos' = IF written THEN pos + 1 ELSE pos
    /\ UNCHANGED <<doc, faults, run, pid, extracted, built, cleanVars, schemaVars>>

settingFilePath(mm) == mm.Folder \o <<"/", "setting", ".", "yaml">>

WriteSetting ==
    /\ pc = "saveSetting"
    /\ pos > Len(Positions(m.Requests))
    /\ \E created \in faults : \E encoded \in faults :
           IF ~created
           THEN /\ io' = Append(io, Step("Create", settingFilePath(m), 0, FALSE))
                /\ pc' = "fatal"
                /\ fs' = fs
           ELSE /\ io' = io \o <<Step("Create", settingFilePath(m), 0, TRUE),
                                 Step("Encode", settingFilePath(m), 0, encoded)>>
                /\ fs' = [fs EXCEPT !.files =
                             WriteTo(@, settingFilePath(m),
                                     IF encoded THEN Ptr(Encode(m)) ELSE Nil)]
                /\ pc' = IF encoded THEN "copy" ELSE "fatal"
    /\ UNCHANGED <<doc, faults, run, pid, m, extracted, built, pos, cleanVars, schemaVars>>

copyFilePath(mm, openApiFile) == mm.Folder \o <<"/", "openapi">> \o Ext(openApiFile)

CopyOpenAPIFile ==
    /\ pc = "copy"
    /\ \E read \in faults : \E written \in faults :
           LET filePath == copyFilePath(m, OpenApiFile)
               data == IF read THEN Ptr(doc) ELSE Nil
           IN  \* data, _ := os.ReadFile(openApiFile): the error is dropped
               /\ io' = io \o <<Step("ReadFile", OpenApiFile, 0, read),
                                Step("WriteFile", filePath, 0, written)>>
               /\ fs' = IF written
                        THEN [fs EXCEPT !.files = WriteTo(@, filePath, data)]
                        ELSE fs
               /\ pc' = IF written THEN "done" ELSE "fatal"
    /\ UNCHANGED <<doc, faults, run, pid, m, extracted, built, pos, cleanVars, schemaVars>>

\* the program is invoked again, on the same document, with the next target folder
Restart ==
    /\ pc = "done"
    /\ run < Len(Roots)
    /\ run' = run + 1
    /\ pid' \in Pids \ {pid}
    /\ pc' = "parse"
    /\ m' = ZeroSetting
    /\ extracted' = <<>>
    /\ built' = <<>>
    /\ pos' = 0
    /\ io' = <<>>
    /\ UNCHANGED <<doc, faults, fs, cleanVars, schemaVars>>


(***************************************************************************)
(* The documents of the runs.                                              *)
(***************************************************************************)
StringExample(text) ==
    Ptr([Value |-> Ptr([kind |-> "string", text |-> text, members |-> <<>>])])

ObjectExample(members) ==
    Ptr([Value |-> Ptr([kind |-> "object", text |-> <<>>, members |-> members])])

\* media types declaring the examples of one of nameSets, or none and a schema of refs
MediaTypes(examples, nameSets, refs) ==
    {Ptr([Examples |-> [n \in E |-> examples[n]], Schema |-> Nil]) : E \in nameSets}
    \cup {Ptr([Examples |-> <<>>, Schema |-> ref]) : ref \in refs}

\* content maps over the content types cts, each with a media type of medias
Contents(cts, medias) ==
    {Nil} \cup {Ptr(c) : c \in UNION {[S -> medias] : S \in SUBSET cts \ {{}}}}

ResponseItems(descriptions, contents) == [Description : descriptions, Content : contents]

ResponseMaps(keys, items, n) ==
    UNION {[K -> items] : K \in {S \in SUBSET keys : 1 <= Cardinality(S) /\ Cardinality(S) <= n}}

RECURSIVE TotalEntries(_, _)
TotalEntries(byMethod, methods) ==
    IF methods = {} THEN 0
    ELSE LET method == CHOOSE x \in methods : TRUE
         IN  Cardinality(DOMAIN byMethod[method]) + TotalEntries(byMethod, methods \ {method})

OperationID(method) == IF method = <<"GET">> THEN <<"x">> ELSE <<"y">>

Document(schemas, byMethod) ==
    [Info    |-> [Title |-> <<"M", " ", "S">>, Description |-> <<"d">>],
     Schemas |-> schemas,
     Paths   |-> [path \in {<<"/", "p">>} |->
                     [method \in DOMAIN byMethod |->
                         [OperationID |-> OperationID(method),
                          Responses   |-> byMethod[method]]]]]

DocumentsOf(methods, keys, items, schemas) ==
    {Document(schemas, byMethod) :
        byMethod \in {f \in UNION {[Ms -> ResponseMaps(keys, items, MaxEntries)]
                                  : Ms \in SUBSET methods \ {{}}} :
                         TotalEntries(f, DOMAIN f) <= MaxEntries}}

K200 == <<"2", "0", "0">>
K404 == <<"4", "0", "4">>
K0200 == <<"0", "2", "0", "0">>
KBad == <<"2", "X", "X">>

PetSchema ==
    [type |-> "object",
     properties |-> Ptr(<<[name |-> "id", type |-> "integer", example |-> Ptr(<<"1">>)],
                          [name |-> "meta", type |-> "object", example |-> Nil]>>)]

PetRef == SchemaFullName(<<"Pet">>)

RunSchemas == Ptr([n \in {<<"Pet">>} |-> PetSchema])

RunExamples ==
    [n \in {<<"e">>, <<"f">>} |->
        IF n = <<"e">> THEN StringExample(<<"h">>)
        ELSE ObjectExample([k \in {"id"} |-> <<"1">>])]

RunItems ==
    ResponseItems({Ptr(<<"O", "K", "\n">>)},
                  Contents({<<"j">>},
                           MediaTypes(RunExamples, SUBSET DOMAIN RunExamples \ {{}},
                                      {Nil, Ptr([Ref |-> PetRef])})))

Documents == DocumentsOf({<<"GET">>, <<"POST">>}, {K200, K404}, RunItems, RunSchemas)

InitFS ==
    [dirs  |-> UNION {{TrimRight(Roots[r], {"/"}),
                       TrimRight(Roots[r], {"/"}) \o <<"/", "data">>} : r \in DOMAIN Roots},
     files |-> <<>>]

InitRun(documents, outcomes) ==
    /\ doc \in documents
    /\ faults = outcomes
    /\ run = 1
    /\ pid = 4242
    /\ pc = "parse"
    /\ m = ZeroSetting
    /\ extracted = <<>>
    /\ built = <<>>
    /\ pos = 0
    /\ fs = InitFS
    /\ io = <<>>
    /\ CleanIdle
    /\ SchemaIdle

\* one invocation; every file-system call may fail
Init == InitRun(Documents, BOOLEAN)

Next ==
    \/ ParseOpenApiFile
    \/ Convert
    \/ CreateFolder
    \/ SaveResponse
    \/ WriteSetting
    \/ CopyOpenAPIFile

Spec == Init /\ [][Next]_vars

\* two invocations on the same document, into Roots[1] and Roots[2]; no call fails
InitTwice == InitRun(Documents, {TRUE})

NextTwice ==
    \/ ParseOpenApiFile
    \/ Convert
    \/ CreateFolder
    \/ SaveResponse
    \/ WriteSetting
    \/ CopyOpenAPIFile
    \/ Restart

SpecTwice == InitTwice /\ [][NextTwice]_vars


\* extractResponse and the sort alone, on one operation whose content types and
\* example names may themselves hold the text "&name="
ExtractExamples ==
    [n \in {<<"u">>, <<"b", "&name=", "u">>} |->
        IF n = <<"u">> THEN StringExample(<<"h">>) ELSE StringExample(<<>>)]

ExtractItems ==
    ResponseItems({Nil},
                  Contents({<<"a">>, <<"a", "&name=", "b">>},
                           MediaTypes(ExtractExamples,
                                      {{n} : n \in DOMAIN ExtractExamples}, {Nil})))

ExtractDocuments == DocumentsOf({<<"GET">>}, {K200, K0200, K404, KBad}, ExtractItems, Nil)

InitExtract == InitRun(ExtractDocuments, {TRUE})

NextExtract ==
    \/ ParseOpenApiFile
    \/ Convert

SpecExtract == InitExtract /\ [][NextExtract]_vars

(***************************************************************************)
(* Documents for the choice of a body: a content type maps to a null media *)
(* type, to a media type with inline examples (an object, a nil reference) *)
(* and a schema reference, or to a media type without examples and with or *)
(* without a schema reference (to a schema of the document, to one that is *)
(* not there, or an empty one).                                            *)
(***************************************************************************)
BodyExamples ==
    [n \in {<<"f">>, <<"g">>} |->
        IF n = <<"f">> THEN ObjectExample([k \in {"id"} |-> <<"1">>]) ELSE Nil]

DogRef == SchemaFullName(<<"Dog">>)

\* media types without inline examples
PlainMedias ==
    {Ptr([Examples |-> <<>>, Schema |-> ref]) :
        ref \in {Nil, Ptr([Ref |-> PetRef]), Ptr([Ref |-> DogRef]), Ptr([Ref |-> <<>>])}}

BodyMedias ==
    {Nil, Ptr([Examples |-> BodyExamples, Schema |-> Ptr([Ref |-> PetRef])])}
    \cup PlainMedias

\* content type j with any media type, beside it x with a null or a referring one
BodyContents ==
    {Nil}
    \cup {Ptr([ct \in {<<"j">>} |-> media]) : media \in BodyMedias}
    \cup {Ptr([ct \in {<<"j">>, <<"x">>} |-> IF ct = <<"j">> THEN media ELSE other]) :
            media \in BodyMedias,
            other \in {Nil, Ptr([Examples |-> <<>>, Schema |-> Ptr([Ref |-> PetRef])])}}

BodyItems == ResponseItems({Nil}, BodyContents)

BodyDocuments == DocumentsOf({<<"GET">>}, {K200, K404}, BodyItems, RunSchemas)

InitBody == InitRun(BodyDocuments, {TRUE})

NextBody ==
    \/ ParseOpenApiFile
    \/ Convert

SpecBody == InitBody /\ [][NextBody]_vars

(***************************************************************************)
(* The claims                                                              *)
(***************************************************************************)
Converted == pc = "createFolder"               \* getRequests has just returned
SaveSettingDone == pc \in {"copy", "done"}     \* SaveSetting has returned

ResponseAt(requests, k) ==
    requests[Positions(requests)[k][1]].Responses[Positions(requests)[k][2]]

\* a path of the setting file, resolved against the target folder
ResolvePath(root, rel) ==
    TrimRight(root, {"/"}) \o <<"/">>
        \o (IF Len(rel) >= 2 /\ SubSeq(rel, 1, 2) = <<".", "/">>
            THEN SubSeq(rel, 3, Len(rel)) ELSE rel)

BagOfSeq(seq) == [x \in Range(seq) |-> Cardinality({k \in DOMAIN seq : seq[k] = x})]

\* C1 (as claimed): once SaveSetting has completed, the file at every response's
\* file path (resolved against the target folder) holds exactly the body the
\* response had before planning.
C1_RoundTrip ==
    SaveSettingDone =>
        \A k \in DOMAIN Positions(m.Requests) :
            ResponseAt(m.Requests, k).FilePath # Nil =>
                LET path == ResolvePath(targetFolder, Deref(ResponseAt(m.Requests, k).FilePath))
                IN  /\ path \in DOMAIN fs.files
                    /\ fs.files[path] = BodyBytes(ResponseAt(built, k))

\* C2 (as claimed): within one operation, two responses built from different
\* (status code, content type, example name) triples never get the same query.
C2_QueryInjective ==
    Converted =>
        \A i \in DOMAIN m.Requests :
            \A j, k \in DOMAIN m.Requests[i].Responses :
                m.Requests[i].Responses[j].src # m.Requests[i].Responses[k].src
                    => m.Requests[i].Responses[j].Query # m.Requests[i].Responses[k].Query

RECURSIVE StableSortByCode(_)
StableSortByCode(responses) ==
    IF responses = <<>> THEN <<>>
    ELSE LET least == CHOOSE c \in {responses[k].Code : k \in DOMAIN responses} :
                          \A k \in DOMAIN responses : c <= responses[k].Code
         IN  SelectSeq(responses, LAMBDA r : r.Code = least)
                 \o StableSortByCode(SelectSeq(responses, LAMBDA r : r.Code # least))

C4_FilePathIffBody ==
    SaveSettingDone =>
        \A k \in DOMAIN Positions(m.Requests) :
            /\ ResponseAt(m.Requests, k).FilePath # Nil <=> ResponseAt(built, k).Body # Nil
            /\ ResponseAt(built, k).Body = Nil =>
                   /\ ResponseAt(m.Requests, k) = ResponseAt(built, k)
                   /\ \A s \in DOMAIN io : io[s].at # k

\* C4 witness: SaveSetting completed on a response with a body and one without
C4_Witness ==
    /\ SaveSettingDone
    /\ \E k \in DOMAIN Positions(m.Requests) : ResponseAt(built, k).Body = Nil
    /\ \E k \in DOMAIN Positions(m.Requests) :
           /\ ResponseAt(built, k).Body # Nil
           /\ \E s \in DOMAIN io : io[s].at = k /\ io[s].op = "WriteFile"

OperationOf(request) == doc.Paths[request.Path][request.Method]

NoContentKeys(operation) ==
    {key \in DOMAIN operation.Responses : operation.Responses[key].Content = Nil}

\* the positions (in SaveSetting's order) of the responses of request i that carry
\* the code and no headers
BareResponses(i, code) ==
    {k \in DOMAIN Positions(built) :
        /\ Positions(built)[k][1] = i
        /\ ResponseAt(built, k).Code = code
        /\ ResponseAt(built, k).Headers = Nil}

\* C5: a status-code entry without a content mapping yields exactly one response,
\* with query ?key=<code>, no headers and no body; after SaveSetting it has no
\* file path and nothing was created or written for it.
C5_NoContentEntry ==
    pc \in {"createFolder", "saveSetting", "copy", "done"} =>
        \A i \in DOMAIN built :
            \A key \in NoContentKeys(OperationOf(built[i])) :
                LET code == Deref(Atoi(key))
                IN  /\ Cardinality(BareResponses(i, code)) = 1
                    /\ \A k \in BareResponses(i, code) :
                           /\ ResponseAt(built, k).Query = <<"?", "key=">> \o Itoa(code)
                           /\ ResponseAt(built, k).Body = Nil
                           /\ SaveSettingDone =>
                                  /\ ResponseAt(m.Requests, k).FilePath = Nil
                                  /\ \A s \in DOMAIN io : io[s].at # k

\* C5 witness: SaveSetting completed on a document with an entry without content
\* beside a response that got a file
C5_Witness ==
    /\ SaveSettingDone
    /\ \E i \in DOMAIN built : NoContentKeys(OperationOf(built[i])) # {}
    /\ \E k \in DOMAIN Positions(m.Requests) : ResponseAt(m.Requests, k).FilePath # Nil

SettingFile(r) ==
    settingFilePath([Folder |-> DataFolder(Roots[r], [Name |-> doc.Info.Title])])

BothSaved ==
    /\ run = 2
    /\ pc = "done"
    /\ SettingFile(1) \in DOMAIN fs.files
    /\ SettingFile(2) \in DOMAIN fs.files

Setting(r) == Deref(fs.files[SettingFile(r)])

\* C6 (as claimed): two runs on the same document into two empty target folders
\* save identical settings, the port aside.
C6_Identical ==
    BothSaved => [Setting(1) EXCEPT !.port = 0] = [Setting(2) EXCEPT !.port = 0]

UpToOrder(setting) ==
    [setting EXCEPT
        !.port = 0,
        !.requests = BagOfSeq([i \in DOMAIN setting.requests |->
                                  [setting.requests[i] EXCEPT
                                      !.responses = BagOfSeq(setting.requests[i].responses)]])]

CodesSorted(setting) ==
    \A i \in DOMAIN setting.requests :
        \A j, k \in DOMAIN setting.requests[i].responses :
            j < k => setting.requests[i].responses[j].code
                        <= setting.requests[i].responses[k].code

\* C6 (amended): the two settings are identical, the port aside, up to the order
\* of the requests and the order of the responses that share a status code.
C6_SameUpToOrder ==
    BothSaved =>
        /\ UpToOrder(Setting(1)) = UpToOrder(Setting(2))
        /\ CodesSorted(Setting(1)) /\ CodesSorted(Setting(2))

\* C6 witness: both runs completed, with file paths, and saved different settings
C6_Witness ==
    /\ BothSaved
    /\ Setting(1).requests # Setting(2).requests
    /\ \E i \in DOMAIN Setting(1).requests :
           \E j \in DOMAIN Setting(1).requests[i].responses :
               Setting(1).requests[i].responses[j].filePath # Nil

\* C10 (as claimed): a failed step ends the run: it is the last step, and
\* nothing is created or written after it.
C10_FailStop ==
    \A k \in DOMAIN io : ~io[k].ok => (k = Len(io) /\ pc = "fatal")



\* the responses extractResponse appended for one content type of one entry
EmittedFor(i, code, contentType) ==
    SelectSeq(extracted[i],
              LAMBDA r : r.src.code = code /\ r.src.contentType = Ptr(contentType))

DeclaredExamples(media) == IF media = Nil THEN <<>> ELSE Deref(media).Examples

\* the table's non-empty entry for the schema reference of the media type, if any
TableBody(media, table) ==
    IF /\ media # Nil
       /\ Deref(media).Schema # Nil
       /\ Deref(Deref(media).Schema).Ref \in DOMAIN table
       /\ table[Deref(Deref(media).Schema).Ref] # <<>>
    THEN Ptr(table[Deref(Deref(media).Schema).Ref])
    ELSE Nil

ExampleBody(exampleRef) ==
    IF getBodyString(exampleRef) = <<>> THEN Nil ELSE Ptr(getBodyString(exampleRef))

BodyPrecedence(emitted, media, table) ==
    LET examples == DeclaredExamples(media)
    IN  IF DOMAIN examples # {}
        THEN /\ Len(emitted) = Cardinality(DOMAIN examples)
             /\ \A n \in DOMAIN examples :
                    \E k \in DOMAIN emitted :
                        /\ emitted[k].src.exampleName = Ptr(n)
                        /\ emitted[k].Body = ExampleBody(examples[n])
        ELSE /\ Len(emitted) = 1
             /\ emitted[1].src.exampleName = Nil
             /\ emitted[1].Body = TableBody(media, table)

\* holds(emitted, media, table) for every declared content type of every entry
ForEveryContentType(holds(_, _, _)) ==
    Converted =>
        \E table \in SchemaExampleTables(doc) :
            \A i \in DOMAIN extracted :
                LET operation == OperationOf(m.Requests[i])
                IN  \A key \in DOMAIN operation.Responses \ NoContentKeys(operation) :
                        \A contentType \in DOMAIN Deref(operation.Responses[key].Content) :
                            holds(EmittedFor(i, Deref(Atoi(key)), contentType),
                                  Deref(operation.Responses[key].Content)[contentType],
                                  table)

\* C11 (as claimed): every declared content type of a status-code entry yields one
\* response per named inline example, with the example's body (none when it is empty)
\* and never the schema's, or else exactly one response, whose body is the table's
\* non-empty entry for the schema reference and absent otherwise.
C11_EveryContentType == ForEveryContentType(BodyPrecedence)

PresentBodyPrecedence(emitted, media, table) ==
    IF media = Nil THEN emitted = <<>> ELSE BodyPrecedence(emitted, media, table)

\* C11 (amended): a content type declared with a null media type yields no response;
\* every other declared content type yields one response per named inline example,
\* with the example's body (none when it is empty) and never the schema's, or else
\* exactly one response, whose body is the table's non-empty entry for the schema
\* reference and absent otherwise.
C11_BodyPrecedence == ForEveryContentType(PresentBodyPrecedence)

\* C11 witness: extractResponse has returned for an operation that declares a null
\* media type, inline examples beside a schema reference the table resolves, and a
\* response whose body came from the table
C11_Witness ==
    /\ Converted
    /\ \E i \in DOMAIN extracted :
           LET operation == OperationOf(m.Requests[i])
               medias == UNION {Range([ct \in DOMAIN Deref(operation.Responses[key].Content) |->
                                          Deref(operation.Responses[key].Content)[ct]])
                                : key \in DOMAIN operation.Responses \ NoContentKeys(operation)}
           IN  /\ Nil \in medias
               /\ \E media \in medias \ {Nil} :
                      /\ DOMAIN Deref(media).Examples # {}
                      /\ Deref(media).Schema = Ptr([Ref |-> PetRef])
               /\ \E k \in DOMAIN extracted[i] :
                      /\ extracted[i][k].src.exampleName = Nil
                      /\ extracted[i][k].Body # Nil
=============================================================================
